---- MODULE Spec2Model ----
(***************************************************************************)
(* A model of LibplaceboFilter (src/src/libplacebo_filter.cpp): one filter *)
(* session that owns a filter graph, its buffer source and buffer sink and *)
(* a hardware device context, pushes decoded frames into the graph, pulls  *)
(* filtered frames out of it and rescales their PTS to the encoder's time  *)
(* base.                                                                   *)
(*                                                                         *)
(* The session's own code is translated line by line.  The collaborators   *)
(* it calls (the frame allocator, the buffer source and sink of the graph, *)
(* the resource locator, the graph builder) are modelled as an             *)
(* environment whose outcomes are chosen nondeterministically.             *)
(***************************************************************************)
EXTENDS Integers, Sequences, FiniteSets, TLC

VARIABLES
    state,             \* lifecycle of the session object
    filter_graph,      \* AVFilterGraph *      (NullPtr or an object address)
    buffersrc_ctx,     \* AVFilterContext *    (ingress endpoint)
    buffersink_ctx,    \* AVFilterContext *    (egress endpoint)
    device_ctx,        \* AVBufferRef *        (hardware device reference)
    shader_path,       \* the shader identifier given to the constructor
    output_width,      \* target width given to the constructor
    output_height,     \* target height given to the constructor
    output_time_base,  \* AVRational, set by init
    readable,          \* the file system: the set of readable paths
    init_called,       \* init has returned
    init_ret,          \* what init returned
    enc_time_base,     \* history: enc_ctx->time_base as init was given it
    shader_full_path,  \* the path init handed to init_libplacebo
    locator_called,    \* init consulted find_resource_file
    builder_called,    \* init invoked init_libplacebo
    builder_freed,     \* handles whose object the builder freed on failure
    sink_time_base,    \* buffersink_ctx->inputs[0]->time_base
    held_at_teardown,  \* history: handles that were non-null when the destructor ran
    released,          \* history: handles released by the destructor, in order
    inflight,          \* frames inside the graph, not yet at the sink
    ready,             \* frames waiting at the buffer sink, oldest first
    eof,               \* the end marker was accepted by the buffer source
    emitted,           \* history: every frame the graph put at its sink, in order
    heap,              \* addresses of the frame containers that are allocated
    n_calls,           \* number of process_frame calls made
    last_op,           \* the operation that returned last
    pf_result,         \* pointer returned by the last process_frame call
    pf_sink_ret,       \* history: the sink's answer in the process_frame call that
                       \* returned last (0 when another operation returned last)
    returned,          \* history: frames returned by process_frame, in order
    processed_frames,  \* the caller's std::vector<AVFrame *> given to flush
    flush_ret,         \* what flush returned
    flush_pre,         \* history: frames the graph buffered when flush was called
    flush_in,          \* history: what the environment answered during flush
    drain_calls,       \* history: library calls flush made inside its loop
    env_fault,         \* history: kind of the last fault the environment injected
    any_fault,         \* history: some call failed in the environment
    surplus_seen,      \* history: a process_frame call left ready frames behind
    pc,                \* where a flush call executed statement by statement is
    loop_frame         \* flush's local filt_frame while it is executed so

vars == <<state, filter_graph, buffersrc_ctx, buffersink_ctx, device_ctx,
          shader_path, output_width, output_height, enc_time_base,
          output_time_base, readable, init_called, init_ret,
          shader_full_path, locator_called, builder_called, builder_freed,
          sink_time_base, held_at_teardown, released, inflight, ready, eof,
          emitted, heap, n_calls, last_op, pf_result, pf_sink_ret, returned,
          processed_frames, flush_ret, flush_pre, flush_in, drain_calls,
          env_fault, any_fault,
          surplus_seen, pc, loop_frame>>

handle_vars == <<filter_graph, buffersrc_ctx, buffersink_ctx, device_ctx>>
init_vars == <<init_called, init_ret, enc_time_base, shader_full_path,
               locator_called,
               builder_called, builder_freed, sink_time_base>>
config_vars == <<shader_path, output_width, output_height, readable>>
teardown_vars == <<held_at_teardown, released>>
pipeline_vars == <<inflight, ready, eof, emitted>>
pf_vars == <<n_calls, pf_result, returned, surplus_seen>>
flush_vars == <<processed_frames, flush_ret, flush_pre, flush_in, drain_calls>>
step_vars == <<pc, loop_frame>>

----------------------------------------------------------------------------
(* Bounds of the model *)

\* process_frame calls made in one run
MaxFrames == 2

----------------------------------------------------------------------------
(* Program constants *)

\* nullptr
NullPtr == 0

\* (AVFrame *)-1, the "no frame yet" pointer
SentinelPtr_AsNull == NullPtr

SentinelPtr == -1

\* AVERROR(EAGAIN), AVERROR_EOF, AVERROR(ENOMEM), AVERROR(EINVAL)
AVERROR_EAGAIN == -11
AVERROR_EOF == -541478725
AVERROR_ENOMEM == -12
AVERROR_EINVAL == -22

\* the negative codes a failing library call reports
ErrorCodes == {AVERROR_EINVAL, AVERROR_ENOMEM}

\* the four handles of the session, by member name
Handles == {"filter_graph", "buffersrc_ctx", "buffersink_ctx", "device_ctx"}

\* addresses of the objects the builder creates
ObjectAddr == [filter_graph |-> 1, buffersrc_ctx |-> 2,
               buffersink_ctx |-> 3, device_ctx |-> 4]

Rational(n, d) == [num |-> n, den |-> d]

\* time bases of the encoder and of the decoder (AVRational, positive)
EncTimeBases == {Rational(1, 30), Rational(1, 1)}
DecTimeBases == {Rational(1, 25), Rational(1, 2)}

\* an AVRational member the constructor does not initialise holds any value
IndeterminateTimeBases == EncTimeBases \cup {Rational(0, 0)}

\* target dimensions the caller may construct the session with
Dimensions == {<<1920, 1080>>}

\* PTS values of the decoded frames
PtsVals == {-3, 2, 5}

\* shader identifiers the caller may construct the session with
ShaderIds == {"upscale", "anime4k"}

\* where the resource locator looks for resources
ResourceRoot == "/usr/share/video2x/"

\* the files that may exist
FileUniverse == {"upscale", ResourceRoot \o "models/upscale.glsl"}

\* the empty path: what the locator yields when it finds nothing
NoPath == ""

\* a drain in which the environment fails nothing and ends with end-of-stream
NoFault == [at |-> 0, kind |-> "none", code |-> 0, last |-> AVERROR_EOF]

\* no library call made yet
NoCalls == [allocs |-> 0, gets |-> 0, frees |-> 0]

----------------------------------------------------------------------------
(* The collaborators of init *)

\* fsutils: the path names a file that can be opened for reading
filepath_is_readable(path) == path \in readable

\* fsutils: the absolute readable path of a resource, or nothing
find_resource_file(fragment) ==
    IF (ResourceRoot \o fragment) \in readable
    THEN ResourceRoot \o fragment
    ELSE NoPath

\* init_libplacebo: the outcomes of building the graph for a shader path.
\* It succeeds only on a readable shader and then binds all four handles;
\* it may fail at any stage, after writing some of the handles through the
\* pointers it was given, and may or may not have freed what it created.
init_libplacebo(path) ==
    (IF filepath_is_readable(path)
     THEN {[ret |-> 0, bound |-> Handles, freed |-> {}]}
     ELSE {})
    \cup
    {[ret |-> e, bound |-> b, freed |-> f] :
        e \in ErrorCodes, b \in (SUBSET Handles) \ {Handles}, f \in {{}, Handles}}

----------------------------------------------------------------------------
(* LibplaceboFilter::LibplaceboFilter *)

Init ==
    /\ state = "Uninitialized"
    /\ filter_graph = NullPtr
    /\ buffersrc_ctx = NullPtr
    /\ buffersink_ctx = NullPtr
    /\ device_ctx = NullPtr
    /\ shader_path \in ShaderIds
    /\ \E dim \in Dimensions : output_width = dim[1] /\ output_height = dim[2]
    /\ enc_time_base = Rational(0, 0)
    /\ output_time_base \in IndeterminateTimeBases
    /\ readable \in SUBSET FileUniverse
    /\ init_called = FALSE
    /\ init_ret = 0
    /\ shader_full_path = NoPath
    /\ locator_called = FALSE
    /\ builder_called = FALSE
    /\ builder_freed = {}
    /\ sink_time_base = Rational(0, 0)
    /\ held_at_teardown = {}
    /\ released = <<>>
    /\ inflight = <<>>
    /\ ready = <<>>
    /\ eof = FALSE
    /\ emitted = <<>>
    /\ heap = {}
    /\ n_calls = 0
    /\ last_op = "constructor"
    /\ pf_result = NullPtr
    /\ pf_sink_ret = 0
    /\ returned = <<>>
    /\ processed_frames = <<>>
    /\ flush_ret = 0
    /\ flush_pre = <<>>
    /\ flush_in = [submit |-> 0, f |-> NoFault]
    /\ drain_calls = NoCalls
    /\ env_fault = "none"
    /\ any_fault = FALSE
    /\ surplus_seen = FALSE
    /\ pc = "idle"
    /\ loop_frame = NullPtr

----------------------------------------------------------------------------
(* LibplaceboFilter::init *)

FallbackPath_NoExtension(id) == "models/" \o id

\* std::filesystem::path("models") / (shader_path.string() + ".glsl")
FallbackPath(id) == "models/" \o id \o ".glsl"

\* the path init hands to the builder
ResolveShaderPath(id) ==
    IF filepath_is_readable(id)
    THEN id
    ELSE find_resource_file(FallbackPath(id))

CapturedTimeBase_FromDecoder(old, enc, dec, ret) == dec

CapturedTimeBase_OnSuccessOnly(old, enc, dec, ret) == IF ret = 0 THEN enc ELSE old

\* output_time_base = enc_ctx->time_base, whatever the member held, whatever
\* dec_ctx holds and whatever the builder will return
CapturedTimeBase(old, enc, dec, ret) == enc

\* the value a handle has after the builder wrote the handles in `bound`
BoundHandle(old, h, bound) == IF h \in bound THEN ObjectAddr[h] ELSE old

init(enc_ctx_time_base, dec_time_base, out) ==
    /\ state = "Uninitialized"
    /\ out \in init_libplacebo(ResolveShaderPath(shader_path))
    /\ shader_full_path' = ResolveShaderPath(shader_path)
    /\ locator_called' = ~filepath_is_readable(shader_path)
    /\ output_time_base' = CapturedTimeBase(output_time_base, enc_ctx_time_base,
                                            dec_time_base, out.ret)
    /\ enc_time_base' = enc_ctx_time_base
    /\ builder_called' = TRUE
    /\ filter_graph' = BoundHandle(filter_graph, "filter_graph", out.bound)
    /\ buffersrc_ctx' = BoundHandle(buffersrc_ctx, "buffersrc_ctx", out.bound)
    /\ buffersink_ctx' = BoundHandle(buffersink_ctx, "buffersink_ctx", out.bound)
    /\ device_ctx' = BoundHandle(device_ctx, "device_ctx", out.bound)
    /\ builder_freed' = out.bound \cap out.freed
    /\ sink_time_base' = IF out.ret = 0 THEN dec_time_base ELSE sink_time_base
    /\ init_ret' = out.ret
    /\ init_called' = TRUE
    /\ state' = IF out.ret = 0 THEN "Initialized" ELSE "Failed"
    /\ last_op' = "init"
    /\ pf_sink_ret' = 0
    /\ UNCHANGED <<config_vars, teardown_vars, pipeline_vars, heap, pf_vars,
                   flush_vars, env_fault, any_fault, step_vars>>

----------------------------------------------------------------------------
(* LibplaceboFilter::~LibplaceboFilter *)

ReleaseOrder_GraphFirst ==
    <<"filter_graph", "buffersrc_ctx", "buffersink_ctx", "device_ctx">>

\* the order of the destructor's four if-blocks
ReleaseOrder ==
    <<"buffersrc_ctx", "buffersink_ctx", "device_ctx", "filter_graph">>

HandleValue(h) ==
    CASE h = "filter_graph" -> filter_graph
      [] h = "buffersrc_ctx" -> buffersrc_ctx
      [] h = "buffersink_ctx" -> buffersink_ctx
      [] h = "device_ctx" -> device_ctx

IsHeld(h) == HandleValue(h) # NullPtr

\* if (p) { free(p); p = nullptr; }
ReleaseAndNull(p) == IF p # NullPtr THEN NullPtr ELSE p

Destructor ==
    /\ state # "Closed"
    /\ held_at_teardown' = {h \in Handles : IsHeld(h)}
    /\ released' = SelectSeq(ReleaseOrder, IsHeld)
    /\ buffersrc_ctx' = ReleaseAndNull(buffersrc_ctx)
    /\ buffersink_ctx' = ReleaseAndNull(buffersink_ctx)
    /\ device_ctx' = ReleaseAndNull(device_ctx)
    /\ filter_graph' = ReleaseAndNull(filter_graph)
    /\ state' = "Closed"
    /\ last_op' = "destructor"
    /\ pf_sink_ret' = 0
    /\ UNCHANGED <<config_vars, output_time_base, init_vars, pipeline_vars,
                   heap, pf_vars, flush_vars, env_fault, any_fault, step_vars>>

----------------------------------------------------------------------------
(* The collaborators of process_frame and flush *)

\* av_frame_alloc: a container at an address no live container has
av_frame_alloc(live) == CHOOSE a \in 1..(Cardinality(live) + 1) : a \notin live

av_frame_free_Missing(live, ptr) == live

\* av_frame_free: the container at ptr is no longer allocated
av_frame_free(live, ptr) == live \ {ptr}

\* av_rescale_rnd(a, b, c, AV_ROUND_NEAR_INF) for b >= 0 and c > 0:
\* a * b / c rounded to the nearest integer, halves away from zero
RECURSIVE av_rescale_rnd(_, _, _)
av_rescale_rnd(a, b, c) ==
    IF a < 0
    THEN -av_rescale_rnd(-a, b, c)
    ELSE (a * b + (c \div 2)) \div c

\* av_rescale_q(a, bq, cq): a in units of bq, expressed in units of cq
av_rescale_q(a, bq, cq) == av_rescale_rnd(a, bq.num * cq.den, cq.num * bq.den)

\* what the graph does with an accepted input frame: it takes the frame in
\* and puts the k oldest frames it holds at its sink
GraphAccept(frame, k) ==
    LET held == Append(inflight, frame)
    IN [inflight |-> SubSeq(held, k + 1, Len(held)),
        ready |-> ready \o SubSeq(held, 1, k),
        emitted |-> emitted \o SubSeq(held, 1, k)]

\* what av_buffersink_get_frame can answer when `rdy` waits at the sink
SinkAnswers(rdy) ==
    IF rdy # <<>>
    THEN {0} \cup ErrorCodes
    ELSE {AVERROR_EAGAIN, AVERROR_EOF} \cup ErrorCodes

----------------------------------------------------------------------------
(* LibplaceboFilter::process_frame *)

RescalePts_Swapped(pts) == av_rescale_q(pts, output_time_base, sink_time_base)

\* av_rescale_q(pts, buffersink_ctx->inputs[0]->time_base, output_time_base)
RescalePts(pts) == av_rescale_q(pts, sink_time_base, output_time_base)

\* a filled container: the frame at the sink, moved to address ptr,
\* with its PTS rescaled (src_pts keeps the PTS the graph gave it)
FilledFrame(ptr, frame) ==
    [ptr |-> ptr, id |-> frame.id, pts |-> RescalePts(frame.pts),
     src_pts |-> frame.pts]

FlushRescalePts_None(pts) == pts

\* flush: av_rescale_q(filt_frame->pts, buffersink_ctx->inputs[0]->time_base,
\* output_time_base)
FlushRescalePts(pts) == av_rescale_q(pts, sink_time_base, output_time_base)

\* flush: filt_frame after retrieval and rescale
FlushFilledFrame(ptr, frame) ==
    [ptr |-> ptr, id |-> frame.id, pts |-> FlushRescalePts(frame.pts),
     src_pts |-> frame.pts]

PFBranch_EofAsError(ret) ==
    IF ret < 0
    THEN IF ret # AVERROR_EAGAIN THEN "error" ELSE "pending"
    ELSE "frame"

PFBranch_NegativeAsPending(ret) == IF ret < 0 THEN "pending" ELSE "frame"

PFBranch_SuccessAsError(ret) ==
    IF ret <= 0
    THEN IF ret # AVERROR_EAGAIN /\ ret # AVERROR_EOF THEN "error" ELSE "pending"
    ELSE "frame"

\* the branch process_frame takes on the sink's answer
PFBranch(ret) ==
    IF ret < 0
    THEN IF ret # AVERROR_EAGAIN /\ ret # AVERROR_EOF THEN "error" ELSE "pending"
    ELSE "frame"

process_frame(pts, alloc_ok, submit_ret, k, get_ret) ==
    /\ state = "Initialized"
    /\ n_calls < MaxFrames
    /\ n_calls' = n_calls + 1
    /\ last_op' = "process_frame"
    /\ LET output_frame == av_frame_alloc(heap)
           g == GraphAccept([id |-> n_calls + 1, pts |-> pts], k)
       IN IF ~alloc_ok
          THEN \* av_frame_alloc failed
               /\ pf_result' = NullPtr
               /\ pf_sink_ret' = 0
               /\ env_fault' = "alloc"
               /\ UNCHANGED <<heap, pipeline_vars, returned, surplus_seen>>
          ELSE IF submit_ret < 0
          THEN \* av_buffersrc_add_frame failed: returns with output_frame allocated
               /\ pf_result' = NullPtr
               /\ pf_sink_ret' = 0
               /\ heap' = heap \cup {output_frame}
               /\ env_fault' = "submit"
               /\ UNCHANGED <<pipeline_vars, returned, surplus_seen>>
          ELSE /\ k \in 0..(Len(inflight) + 1)
               /\ get_ret \in SinkAnswers(g.ready)
               /\ pf_sink_ret' = get_ret
               /\ inflight' = g.inflight
               /\ emitted' = g.emitted
               /\ ready' = IF get_ret >= 0 THEN Tail(g.ready) ELSE g.ready
               /\ eof' = eof
               /\ env_fault' = IF get_ret \in ErrorCodes THEN "get" ELSE "none"
               /\ CASE PFBranch(get_ret) = "error" ->
                          /\ pf_result' = NullPtr
                          /\ heap' = av_frame_free(heap \cup {output_frame},
                                                   output_frame)
                          /\ UNCHANGED <<returned, surplus_seen>>
                    [] PFBranch(get_ret) = "pending" ->
                          /\ pf_result' = SentinelPtr
                          /\ heap' = av_frame_free(heap \cup {output_frame},
                                                   output_frame)
                          /\ UNCHANGED <<returned, surplus_seen>>
                    [] PFBranch(get_ret) = "frame" ->
                          /\ pf_result' = output_frame
                          /\ heap' = heap \cup {output_frame}
                          /\ returned' = Append(returned,
                                   FilledFrame(output_frame, Head(g.ready)))
                          /\ surplus_seen' = (surplus_seen \/ Len(g.ready) > 1)
    /\ any_fault' = (any_fault \/ env_fault' # "none")
    /\ UNCHANGED <<state, handle_vars, config_vars, output_time_base, init_vars,
                   teardown_vars, flush_vars, step_vars>>

----------------------------------------------------------------------------
(* LibplaceboFilter::flush *)

push_front(vec, frame) == <<frame>> \o vec

\* processed_frames.push_back(filt_frame)
push_back(vec, frame) == Append(vec, frame)

IsDrainEnd_EofOnly(ret) == ret = AVERROR_EOF

\* ret == AVERROR(EAGAIN) || ret == AVERROR_EOF
IsDrainEnd(ret) == ret = AVERROR_EAGAIN \/ ret = AVERROR_EOF

SubmitFailed_Ignored(ret) == FALSE

\* if (ret < 0) after the end marker was submitted
SubmitFailed(ret) == ret < 0

\* one more call of a library function counted in c
Counted(c, allocs, gets, frees) ==
    [allocs |-> c.allocs + allocs, gets |-> c.gets + gets,
     frees |-> c.frees + frees]

\* the while (1) loop of flush, from its i-th iteration on.  f says where the
\* environment fails: f.at is the iteration (0: never), f.kind whether the
\* allocation or the retrieval fails, f.code the retrieval's error, f.last
\* the sink's answer once it holds nothing.  c counts the calls made.
RECURSIVE DrainLoop(_, _, _, _, _, _)
DrainLoop(rdy, live, vec, i, f, c) ==
    IF f.at = i /\ f.kind = "alloc"
    THEN [ret |-> AVERROR_ENOMEM, ready |-> rdy, heap |-> live, vec |-> vec,
          calls |-> c]
    ELSE LET filt_frame == av_frame_alloc(live)
             ret == IF f.at = i /\ f.kind = "get" THEN f.code
                    ELSE IF rdy = <<>> THEN f.last ELSE 0
         IN IF IsDrainEnd(ret)
            THEN [ret |-> 0, ready |-> rdy,
                  heap |-> av_frame_free(live \cup {filt_frame}, filt_frame),
                  vec |-> vec, calls |-> Counted(c, 1, 1, 1)]
            ELSE IF ret < 0
            THEN [ret |-> ret, ready |-> rdy,
                  heap |-> av_frame_free(live \cup {filt_frame}, filt_frame),
                  vec |-> vec, calls |-> Counted(c, 1, 1, 1)]
            ELSE DrainLoop(Tail(rdy),
                           live \cup {filt_frame},
                           push_back(vec, FlushFilledFrame(filt_frame, Head(rdy))),
                           i + 1, f, Counted(c, 1, 1, 0))

flush(submit_ret, f) ==
    /\ state = "Initialized"
    /\ state' = "Flushed"
    /\ last_op' = "flush"
    /\ pf_sink_ret' = 0
    /\ flush_pre' = ready \o inflight
    /\ IF SubmitFailed(submit_ret)
       THEN \* av_buffersrc_add_frame(buffersrc_ctx, nullptr) failed
            /\ flush_ret' = submit_ret
            /\ flush_in' = [submit |-> submit_ret, f |-> NoFault]
            /\ drain_calls' = NoCalls
            /\ env_fault' = "submit"
            /\ UNCHANGED <<pipeline_vars, heap, processed_frames>>
       ELSE LET d == DrainLoop(ready \o inflight, heap, processed_frames, 1, f,
                               NoCalls)
            IN /\ f.at \in 0..(Len(ready) + Len(inflight) + 1)
               /\ eof' = TRUE
               /\ inflight' = <<>>
               /\ emitted' = emitted \o inflight
               /\ ready' = d.ready
               /\ heap' = d.heap
               /\ processed_frames' = d.vec
               /\ flush_ret' = d.ret
               /\ flush_in' = [submit |-> submit_ret, f |-> f]
               /\ drain_calls' = d.calls
               /\ env_fault' = f.kind
    /\ any_fault' = (any_fault \/ env_fault' # "none")
    /\ UNCHANGED <<handle_vars, config_vars, output_time_base, init_vars,
                   teardown_vars, pf_vars, step_vars>>

\* the ways the environment can fail a drain: never, at the allocation of
\* iteration `at`, or at the retrieval of iteration `at` with error `code`
DrainFaults ==
    {[at |-> 0, kind |-> "none", code |-> 0, last |-> l] :
        l \in {AVERROR_EAGAIN, AVERROR_EOF}}
    \cup
    {[at |-> i, kind |-> "alloc", code |-> 0, last |-> AVERROR_EOF] :
        i \in 1..(MaxFrames + 1)}
    \cup
    {[at |-> i, kind |-> "get", code |-> c, last |-> AVERROR_EOF] :
        i \in 1..(MaxFrames + 1), c \in ErrorCodes}

----------------------------------------------------------------------------
(* The session's life: construction, one init, frames, one flush, teardown *)

\* process_frame with the outcomes the environment can give it: the
\* allocation fails; the submission fails; the graph takes the frame, puts k
\* frames at its sink and the sink answers get_ret
ProcessFrameCalls ==
    \/ \E pts \in PtsVals : process_frame(pts, FALSE, 0, 0, 0)
    \/ \E pts \in PtsVals, submit_ret \in ErrorCodes :
          process_frame(pts, TRUE, submit_ret, 0, 0)
    \/ \E pts \in PtsVals, k \in 0..MaxFrames,
          get_ret \in {0, AVERROR_EAGAIN, AVERROR_EOF} \cup ErrorCodes :
          process_frame(pts, TRUE, 0, k, get_ret)

\* flush with the outcomes the environment can give it
FlushCalls ==
    \/ \E submit_ret \in ErrorCodes : flush(submit_ret, NoFault)
    \/ \E f \in DrainFaults : flush(0, f)

Next ==
    \/ \E e \in EncTimeBases, d \in DecTimeBases :
          \E out \in init_libplacebo(ResolveShaderPath(shader_path)) :
             init(e, d, out)
    \/ ProcessFrameCalls
    \/ FlushCalls
    \/ Destructor

Spec == Init /\ [][Next]_vars

----------------------------------------------------------------------------
(* LibplaceboFilter::flush, statement by statement *)

\* the sequences of n frames numbered 1..n with PTS drawn from PtsVals
FedFrames(n) ==
    {[i \in 1..n |-> [id |-> i, pts |-> p[i]]] : p \in [1..n -> PtsVals]}

\* a session whose init succeeded on a directly readable shader and whose
\* process_frame calls all met AVERROR(EAGAIN): the graph holds every frame
\* fed, and flush has just been called
InitSteps ==
    /\ state = "Initialized"
    /\ filter_graph = ObjectAddr["filter_graph"]
    /\ buffersrc_ctx = ObjectAddr["buffersrc_ctx"]
    /\ buffersink_ctx = ObjectAddr["buffersink_ctx"]
    /\ device_ctx = ObjectAddr["device_ctx"]
    /\ shader_path = "upscale"
    /\ \E dim \in Dimensions : output_width = dim[1] /\ output_height = dim[2]
    /\ readable = {"upscale"}
    /\ enc_time_base \in EncTimeBases
    /\ output_time_base = enc_time_base
    /\ init_called = TRUE
    /\ init_ret = 0
    /\ shader_full_path = "upscale"
    /\ locator_called = FALSE
    /\ builder_called = TRUE
    /\ builder_freed = {}
    /\ sink_time_base \in DecTimeBases
    /\ held_at_teardown = {}
    /\ released = <<>>
    /\ n_calls \in 0..MaxFrames
    /\ inflight \in FedFrames(n_calls)
    /\ ready = <<>>
    /\ eof = FALSE
    /\ emitted = <<>>
    /\ heap = {}
    /\ last_op = IF n_calls = 0 THEN "init" ELSE "process_frame"
    /\ pf_result = IF n_calls = 0 THEN NullPtr ELSE SentinelPtr
    /\ pf_sink_ret = IF n_calls = 0 THEN 0 ELSE AVERROR_EAGAIN
    /\ returned = <<>>
    /\ processed_frames = <<>>
    /\ flush_ret = 0
    /\ flush_pre = <<>>
    /\ flush_in = [submit |-> 0, f |-> NoFault]
    /\ drain_calls = NoCalls
    /\ env_fault = "none"
    /\ any_fault = FALSE
    /\ surplus_seen = FALSE
    /\ pc = "submit"
    /\ loop_frame = NullPtr

AfterDrainEnd_Continue == "alloc"

\* break: the loop is left and flush returns
AfterDrainEnd == "done"

\* what stays as it is while flush runs
flush_frame == <<handle_vars, config_vars, output_time_base, init_vars,
                 teardown_vars, pf_vars, pf_sink_ret, flush_in, drain_calls>>

\* flush returns: the caller sees the call completed
Returned(next_pc) ==
    /\ state' = IF next_pc = "done" THEN "Flushed" ELSE state
    /\ last_op' = IF next_pc = "done" THEN "flush" ELSE last_op

\* av_buffersrc_add_frame(buffersrc_ctx, nullptr) and the test of its result
FlushSubmit(submit_ret) ==
    /\ pc = "submit"
    /\ flush_pre' = ready \o inflight
    /\ IF SubmitFailed(submit_ret)
       THEN /\ flush_ret' = submit_ret
            /\ env_fault' = "submit"
            /\ pc' = "done"
            /\ UNCHANGED pipeline_vars
       ELSE /\ eof' = TRUE
            /\ ready' = ready \o inflight
            /\ emitted' = emitted \o inflight
            /\ inflight' = <<>>
            /\ env_fault' = "none"
            /\ pc' = "alloc"
            /\ UNCHANGED flush_ret
    /\ Returned(pc')
    /\ any_fault' = (any_fault \/ env_fault' # "none")
    /\ UNCHANGED <<flush_frame, heap, processed_frames, loop_frame>>

\* filt_frame = av_frame_alloc() and the test of its result
DrainAlloc(alloc_ok) ==
    /\ pc = "alloc"
    /\ IF ~alloc_ok
       THEN /\ flush_ret' = AVERROR_ENOMEM
            /\ env_fault' = "alloc"
            /\ pc' = "done"
            /\ UNCHANGED <<heap, loop_frame>>
       ELSE /\ loop_frame' = av_frame_alloc(heap)
            /\ heap' = heap \cup {loop_frame'}
            /\ pc' = "get"
            /\ UNCHANGED <<flush_ret, env_fault>>
    /\ Returned(pc')
    /\ any_fault' = (any_fault \/ env_fault' # "none")
    /\ UNCHANGED <<flush_frame, pipeline_vars, processed_frames, flush_pre>>

\* av_buffersink_get_frame(buffersink_ctx, filt_frame) and what follows it
\* in the loop body
DrainGet(ret) ==
    /\ pc = "get"
    /\ ret \in SinkAnswers(ready)
    /\ IF IsDrainEnd(ret)
       THEN /\ heap' = av_frame_free(heap, loop_frame)
            /\ loop_frame' = NullPtr
            /\ flush_ret' = 0
            /\ pc' = AfterDrainEnd
            /\ UNCHANGED <<ready, processed_frames, env_fault>>
       ELSE IF ret < 0
       THEN /\ heap' = av_frame_free(heap, loop_frame)
            /\ loop_frame' = NullPtr
            /\ flush_ret' = ret
            /\ env_fault' = "get"
            /\ pc' = "done"
            /\ UNCHANGED <<ready, processed_frames>>
       ELSE /\ processed_frames' =
                  push_back(processed_frames,
                            FlushFilledFrame(loop_frame, Head(ready)))
            /\ ready' = Tail(ready)
            /\ loop_frame' = NullPtr
            /\ pc' = "alloc"
            /\ UNCHANGED <<heap, flush_ret, env_fault>>
    /\ Returned(pc')
    /\ any_fault' = (any_fault \/ env_fault' # "none")
    /\ UNCHANGED <<flush_frame, inflight, eof, emitted, flush_pre>>

NextSteps ==
    \/ \E submit_ret \in {0} \cup ErrorCodes : FlushSubmit(submit_ret)
    \/ \E alloc_ok \in BOOLEAN : DrainAlloc(alloc_ok)
    \/ \E ret \in {0, AVERROR_EAGAIN, AVERROR_EOF} \cup ErrorCodes : DrainGet(ret)

\* flush runs on its caller's thread: a call that can execute its next
\* statement does
SpecSteps == InitSteps /\ [][NextSteps]_vars /\ WF_vars(NextSteps)

----------------------------------------------------------------------------
(* Notions the properties are stated in *)

\* the frames the caller has received, in the order it received them
Delivered == returned \o processed_frames

\* the containers the caller owns
CallerOwned == {Delivered[i].ptr : i \in 1..Len(Delivered)}

\* a delivered frame as the graph emitted it
AsEmitted(frames) ==
    [i \in 1..Len(frames) |-> [id |-> frames[i].id, pts |-> frames[i].src_pts]]

AllHeld == \A h \in Handles : IsHeld(h)
NoneHeld == \A h \in Handles : ~IsHeld(h)

\* the classes of result the last process_frame call's pointer falls in
PFResultClasses ==
    {c \in {"frame", "pending", "failure"} :
        \/ c = "frame" /\ pf_result \in heap /\ returned # <<>>
                       /\ returned[Len(returned)].ptr = pf_result
        \/ c = "pending" /\ pf_result = SentinelPtr
        \/ c = "failure" /\ pf_result = NullPtr}

----------------------------------------------------------------------------
(* Properties *)

\* C1: every process_frame call on an initialized session returns exactly one
\* of three results that the caller can tell apart: the address of a live
\* container holding the produced frame, the pointer (AVFrame *)-1, or
\* nullptr.
C1_ExactlyOneResult ==
    last_op = "process_frame" => Cardinality(PFResultClasses) = 1

C1_Witness ==
    /\ last_op = "process_frame"
    /\ PFResultClasses = {"pending"}
    /\ returned # <<>>

\* C2 (as claimed): after every process_frame call each container that is
\* allocated is owned by the caller; none is left allocated and unowned.
C2_NoLeak == last_op = "process_frame" => heap \subseteq CallerOwned

\* C3: a flush in which the end marker is accepted and no allocation or
\* retrieval fails returns 0 and appends exactly the frames the graph
\* buffered when it was called, oldest first; nothing stays at the sink.
C3_FlushDrainsAll ==
    (last_op = "flush" /\ env_fault = "none") =>
        /\ flush_ret = 0
        /\ AsEmitted(processed_frames) = flush_pre
        /\ ready = <<>>
        /\ inflight = <<>>

C3_Witness ==
    /\ last_op = "flush"
    /\ env_fault = "none"
    /\ flush_ret = 0
    /\ Len(flush_pre) = 2
    /\ Len(processed_frames) = 2

\* C4 (as claimed): once init has returned, either it returned 0 and all four
\* handles are non-null, or it returned an error and all four are null.
C4_AllOrNothing ==
    (init_called /\ state # "Closed") =>
        \/ init_ret = 0 /\ AllHeld
        \/ init_ret < 0 /\ NoneHeld

\* C5 (as claimed): when the shader identifier is not readable and the
\* locator finds no models/<identifier>.glsl, init returns an error without
\* invoking the builder, and the four handles stay null.
C5_AbortsBeforeBuilder ==
    (/\ init_called
     /\ shader_path \notin readable
     /\ (ResourceRoot \o "models/" \o shader_path \o ".glsl") \notin readable) =>
        /\ init_ret < 0
        /\ ~builder_called
        /\ (state # "Closed" => NoneHeld)

\* C6: init hands the builder the identifier itself, without consulting the
\* locator, when the identifier is readable; otherwise it hands it what the
\* locator yields for models/<identifier>.glsl.  init succeeds only on a
\* readable path.
C6_OrderedResolution ==
    init_called =>
        /\ builder_called
        /\ IF shader_path \in readable
           THEN shader_full_path = shader_path /\ ~locator_called
           ELSE /\ locator_called
                /\ shader_full_path =
                      find_resource_file("models/" \o shader_path \o ".glsl")
        /\ (init_ret = 0 => shader_full_path \in readable)

C6_Witness ==
    /\ init_called
    /\ init_ret = 0
    /\ shader_path = "upscale"
    /\ "upscale" \notin readable
    /\ shader_full_path = "/usr/share/video2x/models/upscale.glsl"

\* C7 (as claimed): the destructor that runs after a failed init releases no
\* handle.
C7_TeardownAfterFailureIsNoOp ==
    (state = "Closed" /\ init_called /\ init_ret < 0) => released = <<>>

\* C8: under the session's pair of time bases the rescaled PTS of delivered
\* frames are ordered as the PTS the graph gave them, and a rescaled PTS is
\* the exact quotient pts*srcNum*dstDen / (srcDen*dstNum) whenever that
\* quotient is an integer.
C8_RescaleMonotoneAndExact ==
    /\ \A i, j \in 1..Len(Delivered) :
          Delivered[i].src_pts <= Delivered[j].src_pts =>
             Delivered[i].pts <= Delivered[j].pts
    /\ \A i \in 1..Len(Delivered) :
          LET n == Delivered[i].src_pts * sink_time_base.num * output_time_base.den
              d == sink_time_base.den * output_time_base.num
          IN n % d = 0 => Delivered[i].pts * d = n

C8_Witness ==
    /\ sink_time_base = Rational(1, 25)
    /\ output_time_base = Rational(1, 30)
    /\ Len(Delivered) = 2
    /\ Delivered[1].src_pts = 2 /\ Delivered[1].pts = 2
    /\ Delivered[2].src_pts = 5 /\ Delivered[2].pts = 6

\* C9: a process_frame call takes at most one frame from the sink and what
\* it leaves there stays in order, so the frames delivered so far followed by
\* the frames waiting at the sink are always the frames the graph emitted;
\* after a run without a failing call that ends with flush, the delivered
\* frames are all the frames fed, in emission order, each once.
C9_DeliveredInEmissionOrder ==
    /\ Len(returned) <= n_calls
    /\ AsEmitted(Delivered) \o ready = emitted
    /\ Cardinality(CallerOwned) = Len(Delivered)
    /\ (last_op = "flush" /\ ~any_fault) =>
          /\ AsEmitted(Delivered) = emitted
          /\ Len(emitted) = n_calls
          /\ \A i \in 1..Len(emitted) : emitted[i].id = i

C9_Witness ==
    /\ last_op = "flush"
    /\ ~any_fault
    /\ surplus_seen
    /\ Len(returned) = 1
    /\ Len(processed_frames) = 1

IsHeldAtTeardown(h) == h \in held_at_teardown

\* C10: the destructor releases the handles that are non-null, in the order
\* buffer source, buffer sink, device context, filter graph, and leaves all
\* four null; nothing else releases a handle, so a session whose init
\* succeeded releases each of its four handles exactly once.
C10_ReleaseOrder ==
    /\ state # "Closed" =>
          /\ released = <<>>
          /\ (init_called /\ init_ret = 0) => AllHeld
    /\ state = "Closed" =>
          /\ released = SelectSeq(<<"buffersrc_ctx", "buffersink_ctx",
                                    "device_ctx", "filter_graph">>,
                                  IsHeldAtTeardown)
          /\ NoneHeld
          /\ (init_called /\ init_ret = 0) =>
                /\ released = <<"buffersrc_ctx", "buffersink_ctx",
                                "device_ctx", "filter_graph">>
                /\ builder_freed = {}

C10_Witness ==
    /\ state = "Closed"
    /\ init_called /\ init_ret = 0
    /\ Len(released) = 4
    /\ eof
    /\ returned # <<>>

\* C11: process_frame returns nullptr exactly when the allocation fails, the
\* submission fails, or the sink answers a negative code other than
\* AVERROR(EAGAIN) and AVERROR_EOF; it returns (AVFrame *)-1 exactly when the
\* sink answers AVERROR(EAGAIN) or AVERROR_EOF.
C11_FailureVersusBackpressure ==
    last_op = "process_frame" =>
        /\ pf_result = NullPtr <=>
              \/ env_fault \in {"alloc", "submit"}
              \/ /\ pf_sink_ret < 0
                 /\ pf_sink_ret # -11
                 /\ pf_sink_ret # -541478725
        /\ pf_result = SentinelPtr <=>
              /\ env_fault \notin {"alloc", "submit"}
              /\ pf_sink_ret \in {-11, -541478725}

C11_Witness ==
    /\ last_op = "process_frame"
    /\ pf_sink_ret = -541478725
    /\ pf_result = SentinelPtr
    /\ any_fault = FALSE

\* C12: a process_frame call in which the sink answers AVERROR_EOF has the
\* same effect as one in which it answers AVERROR(EAGAIN): either way the
\* call returns (AVFrame *)-1, the container it allocated is released, no
\* frame is delivered and no member of the session changes, so the two calls
\* end in the same session state.
C12_EofLikeNotReady ==
    [][(last_op' = "process_frame" /\ pf_sink_ret' \in {AVERROR_EAGAIN, AVERROR_EOF})
          => /\ pf_result' = SentinelPtr
             /\ heap' = heap
             /\ returned' = returned
             /\ ready' = <<>>
             /\ UNCHANGED <<state, handle_vars, output_time_base, shader_path,
                            processed_frames, eof>>]_vars

C12_Witness ==
    /\ last_op = "process_frame"
    /\ pf_sink_ret = AVERROR_EOF
    /\ pf_result = SentinelPtr
    /\ inflight # <<>>

\* C13: when the submission of the end marker fails, flush returns that
\* error at once: it allocates no container, asks the sink for nothing and
\* leaves the collector and the graph as they were.
C13_SubmitFailureStopsFlush ==
    (last_op = "flush" /\ flush_in.submit < 0) =>
        /\ flush_ret = flush_in.submit
        /\ drain_calls = [allocs |-> 0, gets |-> 0, frees |-> 0]
        /\ processed_frames = <<>>
        /\ ready \o inflight = flush_pre
        /\ ~eof

C13_Witness ==
    /\ last_op = "flush"
    /\ flush_in.submit = AVERROR_EINVAL
    /\ flush_ret = AVERROR_EINVAL
    /\ Len(flush_pre) = 2

\* C14: flush returns 0 exactly when the end marker was accepted and the loop
\* ended on AVERROR(EAGAIN) or AVERROR_EOF; otherwise it returns the code of
\* the first failure (the submission's error, AVERROR(ENOMEM) for a failed
\* allocation, the retrieval's error) and stops there: the frames retrieved
\* before the failure are in the collector in emission order and the others
\* still wait at the sink.
C14_FlushReturnCode ==
    last_op = "flush" =>
        /\ flush_ret = 0 <=> (flush_in.submit >= 0 /\ flush_in.f.kind = "none")
        /\ flush_in.submit < 0 => flush_ret = flush_in.submit
        /\ (flush_in.submit >= 0 /\ flush_in.f.kind = "alloc") =>
              /\ flush_ret = -12
              /\ Len(processed_frames) = flush_in.f.at - 1
        /\ (flush_in.submit >= 0 /\ flush_in.f.kind = "get") =>
              /\ flush_ret = flush_in.f.code
              /\ Len(processed_frames) = flush_in.f.at - 1
        /\ flush_in.submit >= 0 =>
              AsEmitted(processed_frames) \o ready = flush_pre

C14_Witness ==
    /\ last_op = "flush"
    /\ flush_in.submit = 0
    /\ flush_in.f.kind = "get"
    /\ flush_in.f.at = 2
    /\ flush_ret = AVERROR_EINVAL
    /\ Len(processed_frames) = 1
    /\ Len(ready) = 1

\* C17: every container flush allocates inside its loop is either appended
\* to the collector, once, and then stays allocated, or released; after the
\* call the allocated containers are those allocated before it and those it
\* appended.
C17_FlushLeaksNothing ==
    [][last_op' = "flush" =>
          LET old == Len(processed_frames)
              appended == {processed_frames'[i].ptr :
                              i \in (old + 1)..Len(processed_frames')}
          IN /\ heap' = heap \cup appended
             /\ appended \cap heap = {}
             /\ Cardinality(appended) = Len(processed_frames') - old
             /\ drain_calls'.allocs = Cardinality(appended) + drain_calls'.frees]_vars

C17_Witness ==
    /\ last_op = "flush"
    /\ flush_in.f.kind = "get"
    /\ Len(processed_frames) = 1
    /\ drain_calls = [allocs |-> 2, gets |-> 2, frees |-> 1]

\* C15: every delivered frame carries the PTS the graph gave it rescaled
\* once from the sink's time base to output_time_base, so a frame with a
\* given PTS gets the same output PTS from process_frame and from flush.
C15_SameRescaleEverywhere ==
    /\ \A i \in 1..Len(Delivered) :
          Delivered[i].pts =
             av_rescale_q(Delivered[i].src_pts, sink_time_base, output_time_base)
    /\ \A i \in 1..Len(returned), j \in 1..Len(processed_frames) :
          returned[i].src_pts = processed_frames[j].src_pts =>
             returned[i].pts = processed_frames[j].pts

C15_Witness ==
    /\ sink_time_base = Rational(1, 25)
    /\ output_time_base = Rational(1, 30)
    /\ Len(returned) = 1 /\ Len(processed_frames) = 1
    /\ returned[1].src_pts = 5 /\ returned[1].pts = 6
    /\ processed_frames[1].src_pts = 5 /\ processed_frames[1].pts = 6

\* C16: after a successful init output_time_base is the encoder's time base,
\* and no process_frame or flush call changes output_time_base, the target
\* width and height, the shader identifier or any of the four handles.
C16_FrozenAfterInit ==
    /\ []((init_called /\ init_ret = 0) => output_time_base = enc_time_base)
    /\ [][last_op' \in {"process_frame", "flush"} =>
             UNCHANGED <<output_time_base, output_width, output_height,
                         shader_path, filter_graph, buffersrc_ctx,
                         buffersink_ctx, device_ctx>>]_vars

C16_Witness ==
    /\ last_op = "flush"
    /\ any_fault
    /\ returned # <<>>
    /\ output_time_base = enc_time_base
    /\ output_time_base = Rational(1, 30)
    /\ AllHeld

\* C19: init stores the encoder's time base in output_time_base whatever the
\* resolution of the shader path gave and whatever the builder returns: after
\* an init call that failed, output_time_base is the encoder's time base.
C19_TimeBaseCapturedOnFailure ==
    (init_called /\ init_ret < 0) =>
        /\ builder_called
        /\ output_time_base = enc_time_base
        /\ output_time_base \in EncTimeBases

C19_Witness ==
    /\ init_called
    /\ init_ret < 0
    /\ state = "Failed"
    /\ shader_full_path = NoPath
    /\ output_time_base = Rational(1, 30)

\* C18: flush returns: when the sink answers each frame the graph buffered
\* once and then AVERROR(EAGAIN) or AVERROR_EOF, a flush call executed
\* statement by statement reaches its return.
C18_FlushTerminates == <>(pc = "done")

C18_Witness ==
    /\ pc = "done"
    /\ flush_ret = 0
    /\ Len(flush_pre) = 2
    /\ Len(processed_frames) = 2
    /\ ready = <<>>

====
